---- MODULE Spec2Model ----
(***************************************************************************)
(* Model of the chunked ingestion and aggregation program in               *)
(* src/src/main.rs (thread_manager, new_cycle, the worker closure,         *)
(* process_line, update_maps, Station, DebtVec, find_linebreak).           *)
(*                                                                         *)
(* Representation.                                                         *)
(*  - A byte is a one-character string; the file and every buffer is a     *)
(*    sequence of bytes.  NL is the line terminator b'\n'.                 *)
(*  - An f64 value is represented by its number of tenths (an Int): the    *)
(*    inputs carry at most one fractional digit, and for those             *)
(*    (value * 10.0) as i128 is exactly the number of tenths.  Equality    *)
(*    of values is numeric equality.                                       *)
(*  - buffer_size is 8_000_000_000 / max_threads in the source; here byte  *)
(*    counts are scaled down (BufferSizes) so that files of a few records  *)
(*    span several blocks.  The arithmetic on it (/2, /16) is the          *)
(*    source's.                                                            *)
(***************************************************************************)
EXTENDS Integers, Sequences, FiniteSets, TLC

VARIABLES
    file,                 \* the content of the input file
    pos,                  \* the read position of `file` (fs::File cursor)
    max_threads,          \* thread_manager: max_threads
    buffer_size,          \* thread_manager: buffer_size
    dynamic_buffer_size,  \* thread_manager: dynamic_buffer_size
    buffer_a,             \* thread_manager: buffer_a (a DebtVec), the carry
    n_current_threads,    \* thread_manager: n_current_threads
    map_buffer,           \* thread_manager: map_buffer
    map,                  \* main: map, the global mapping
    chan,                 \* the mpsc channel (tx, rx): maps sent, not yet received
    threads,              \* the spawned workers, in spawn order
    pc,                   \* position of the main thread
    acc,                  \* Station algebra: three accumulators (or None)
    folded,               \* Station algebra: the values folded into each
    result,               \* main: result, the entries of the summary
    arg,                  \* a function called on its own: its argument
    ret,                  \* a function called on its own: what it returned
    buffer02,             \* main02 process: buffer
    buffer_offset         \* main02 process: buffer_offset

\* the variables main.rs's thread_manager, workers and Station do not touch
aux == <<result, arg, ret, buffer02, buffer_offset>>

vars == <<file, pos, max_threads, buffer_size, dynamic_buffer_size, buffer_a,
          n_current_threads, map_buffer, map, chan, threads, pc, acc, folded, aux>>

AuxInit ==
    /\ result = <<>>
    /\ arg = <<>>
    /\ ret = <<>>
    /\ buffer02 = <<>>
    /\ buffer_offset = 0

(***************************************************************************)
(* Bounds                                                                  *)
(***************************************************************************)
MaxRecords == 3
MaxThreads == 2
MaxFold == 4
MaxLen == 4

NL == "\n"
SEP == ";"
Digits == {"0", "1", "2", "3", "4", "5", "6", "7", "8", "9"}

Min2(x, y) == IF x <= y THEN x ELSE y
Max2(x, y) == IF x >= y THEN x ELSE y

(***************************************************************************)
(* DebtVec                                                                 *)
(***************************************************************************)
DebtVec(v, o) == [vec |-> v, offset |-> o]

\* DebtVec::slice: &self.vec[self.offset..]
slice(d) == SubSeq(d.vec, d.offset + 1, Len(d.vec))

\* DebtVec::is_empty
is_empty(d) == Len(d.vec) <= d.offset

\* pop_front that returns the bytes and leaves the offset where it was
MutPopFront(d, size) ==
    [popped |-> SubSeq(d.vec, d.offset + 1, d.offset + size),
     after  |-> DebtVec(d.vec, d.offset)]

\* DebtVec::pop_front(size): the popped bytes and the vector afterwards
pop_front(d, size) ==
    [popped |-> SubSeq(d.vec, d.offset + 1, d.offset + size),
     after  |-> DebtVec(d.vec, d.offset + size)]

\* DebtVec::extend
extend(d, s) == DebtVec(d.vec \o s, d.offset)

\* DebtVec::reset
reset(d) == DebtVec(<<>>, 0)

(***************************************************************************)
(* find_linebreak: the 0-based index of the first NL, or -1 for None       *)
(***************************************************************************)
\* the for loop of find_linebreak from `index` on
RECURSIVE ScanLinebreak(_, _)
ScanLinebreak(buffer, index) ==
    IF index >= Len(buffer) THEN -1
    ELSE IF buffer[index + 1] = NL THEN index
    ELSE ScanLinebreak(buffer, index + 1)

\* a scan that returns the last NL instead of the first
MutFindLinebreak(buffer) ==
    IF \E i \in 1..Len(buffer) : buffer[i] = NL
    THEN (CHOOSE i \in 1..Len(buffer) :
             /\ buffer[i] = NL
             /\ \A j \in (i + 1)..Len(buffer) : buffer[j] # NL) - 1
    ELSE -1

find_linebreak(buffer) == ScanLinebreak(buffer, 0)

(***************************************************************************)
(* Station                                                                 *)
(***************************************************************************)
None == [none |-> TRUE]

\* (value * 10.0) as i128, on a value given in tenths
Scaled(value) == value

\* Station::from
StationFrom(value) ==
    [min |-> value, max |-> value, sum |-> Scaled(value), count |-> 1]

\* update with the two comparisons exchanged
MutStationUpdate(s, value) ==
    [min   |-> IF value > s.min THEN value ELSE s.min,
     max   |-> IF value < s.max THEN value ELSE s.max,
     sum   |-> s.sum + Scaled(value),
     count |-> s.count + 1]

\* Station::update
StationUpdate(s, value) ==
    [min   |-> IF value < s.min THEN value ELSE s.min,
     max   |-> IF value > s.max THEN value ELSE s.max,
     sum   |-> s.sum + Scaled(value),
     count |-> s.count + 1]

\* join taking the other accumulator's min instead of the smaller one
MutJoinMin(a, b) == b

\* f64::min / f64::max as Station::join uses them, per field
JoinMin(a, b) == Min2(a, b)

JoinMax(a, b) == Max2(a, b)

\* join counting the other accumulator as a single value
MutStationJoin(s, tmp_station) ==
    [min   |-> JoinMin(s.min, tmp_station.min),
     max   |-> JoinMax(s.max, tmp_station.max),
     sum   |-> s.sum + tmp_station.sum,
     count |-> s.count + 1]

\* Station::join: self.join(&tmp_station)
StationJoin(s, tmp_station) ==
    [min   |-> JoinMin(s.min, tmp_station.min),
     max   |-> JoinMax(s.max, tmp_station.max),
     sum   |-> s.sum + tmp_station.sum,
     count |-> s.count + tmp_station.count]

(***************************************************************************)
(* Formatting with {:.1}                                                   *)
(***************************************************************************)
DigitChar(d) ==
    CASE d = 0 -> "0" [] d = 1 -> "1" [] d = 2 -> "2" [] d = 3 -> "3"
      [] d = 4 -> "4" [] d = 5 -> "5" [] d = 6 -> "6" [] d = 7 -> "7"
      [] d = 8 -> "8" [] d = 9 -> "9"

DigitVal(c) ==
    CASE c = "0" -> 0 [] c = "1" -> 1 [] c = "2" -> 2 [] c = "3" -> 3
      [] c = "4" -> 4 [] c = "5" -> 5 [] c = "6" -> 6 [] c = "7" -> 7
      [] c = "8" -> 8 [] c = "9" -> 9

RECURSIVE NatToChars(_)
NatToChars(n) ==
    IF n < 10 THEN <<DigitChar(n)>>
    ELSE NatToChars(n \div 10) \o <<DigitChar(n % 10)>>

Abs(x) == IF x < 0 THEN -x ELSE x

\* The number of tenths {:.1} prints for the f64 nearest to num/den (den > 0):
\* the nearest tenth of the magnitude, an exact tie going to the even digit.
RoundTenths(num, den) ==
    LET q == (Abs(num) * 10) \div den
        r == (Abs(num) * 10) % den
    IN  IF 2 * r > den \/ (2 * r = den /\ q % 2 = 1) THEN q + 1 ELSE q

\* format!("{:.1}", num/den): sign, integer digits, '.', one fractional digit
FormatF1(num, den) ==
    LET t == RoundTenths(num, den)
    IN  (IF num < 0 THEN <<"-">> ELSE <<>>)
        \o NatToChars(t \div 10) \o <<".">> \o <<DigitChar(t % 10)>>

\* Station::drain, the mean it formats: (self.sum as f64) / (self.count as f64)
\* as a fraction num/den
DrainMean(s) == [num |-> s.sum, den |-> s.count]

\* Station::drain
StationDrain(s) ==
    <<"=">> \o FormatF1(s.min, 10) \o <<"/">>
    \o FormatF1(DrainMean(s).num, DrainMean(s).den) \o <<"/">>
    \o FormatF1(s.max, 10)

(***************************************************************************)
(* Lines, fields and numbers                                               *)
(***************************************************************************)
\* str::lines on a buffer without '\r': the pieces between NLs, a final
\* empty piece dropped
RECURSIVE Lines(_)
Lines(s) ==
    IF s = <<>> THEN <<>>
    ELSE LET i == find_linebreak(s)
         IN  IF i < 0 THEN <<s>>
             ELSE <<SubSeq(s, 1, i)>> \o Lines(SubSeq(s, i + 2, Len(s)))

\* line.split(';'): the pieces between separators (always at least one)
RECURSIVE Split(_)
Split(line) ==
    IF \E i \in 1..Len(line) : line[i] = SEP
    THEN LET i == CHOOSE k \in 1..Len(line) :
                      /\ line[k] = SEP
                      /\ \A j \in 1..(k - 1) : line[j] # SEP
         IN  <<SubSeq(line, 1, i - 1)>> \o Split(SubSeq(line, i + 1, Len(line)))
    ELSE <<line>>

RECURSIVE DigitsToNat(_)
DigitsToNat(ds) ==
    IF ds = <<>> THEN 0
    ELSE DigitsToNat(SubSeq(ds, 1, Len(ds) - 1)) * 10 + DigitVal(ds[Len(ds)])

\* str::parse::<f64> on the bytes the model uses: an optional '-', digits
\* with at most one '.', at least one digit.  ok = FALSE models Err.
ParseF64(value_str) ==
    LET neg  == Len(value_str) > 0 /\ value_str[1] = "-"
        body == IF neg THEN Tail(value_str) ELSE value_str
        dots == {i \in 1..Len(body) : body[i] = "."}
        ok   == /\ \A i \in 1..Len(body) : body[i] \in Digits \cup {"."}
                /\ Cardinality(dots) <= 1
                /\ \E i \in 1..Len(body) : body[i] \in Digits
        dot  == IF dots = {} THEN Len(body) + 1 ELSE CHOOSE i \in dots : TRUE
        int  == SubSeq(body, 1, dot - 1)
        frac == SubSeq(body, dot + 1, Len(body))
        mag  == DigitsToNat(int) * 10 + (IF frac = <<>> THEN 0 ELSE DigitVal(frac[1]))
    IN  IF ok THEN [ok |-> TRUE, value |-> IF neg THEN -mag ELSE mag]
        ELSE [ok |-> FALSE, value |-> 0]

(***************************************************************************)
(* process_line and the worker's loop                                      *)
(***************************************************************************)
Panic == [panic |-> TRUE]

\* process_line: the map afterwards, or Panic when an expect() fails
process_line(line, m) ==
    LET line_iter == Split(line)
        name      == line_iter[1]
    IN  IF Len(line_iter) < 2 THEN Panic
        ELSE LET parsed == ParseF64(line_iter[2])
             IN  IF ~parsed.ok THEN Panic
                 ELSE IF name \notin DOMAIN m
                      THEN m @@ (name :> StationFrom(parsed.value))
                      ELSE [m EXCEPT ![name] = StationUpdate(@, parsed.value)]

EmptyMap == <<>>

\* the worker closure's for loop: process_line on every line in turn
RECURSIVE FoldLines(_, _)
FoldLines(lines, m) ==
    IF lines = <<>> \/ m = Panic THEN m
    ELSE FoldLines(Tail(lines), process_line(Head(lines), m))

\* update_maps inserting every entry, replacing the one present
MutUpdateMaps(main_map, tmp_map) ==
    [name \in DOMAIN main_map \cup DOMAIN tmp_map |->
        IF name \in DOMAIN tmp_map THEN tmp_map[name] ELSE main_map[name]]

\* update_maps: join where the name is present, insert where it is not
update_maps(main_map, tmp_map) ==
    [name \in DOMAIN main_map \cup DOMAIN tmp_map |->
        IF name \in DOMAIN main_map
        THEN IF name \in DOMAIN tmp_map
             THEN StationJoin(main_map[name], tmp_map[name])
             ELSE main_map[name]
        ELSE tmp_map[name]]

(***************************************************************************)
(* Input files                                                             *)
(***************************************************************************)
RecA1   == <<"a", ";", "1", ".", "0">>
RecANeg == <<"a", ";", "-", "0", ".", "5">>
RecB    == <<"b", ";", "2", ".", "5">>
RecBadValue == <<"a", ";", "x">>
RecNoSep    == <<"b">>

WellFormedRecords == {RecA1, RecANeg, RecB}
Records == WellFormedRecords \cup {RecBadValue, RecNoSep}

\* the records joined by NL, the last one terminated or not
RECURSIVE Join(_)
Join(rs) ==
    IF Len(rs) = 1 THEN rs[1] ELSE rs[1] \o <<NL>> \o Join(Tail(rs))

RecordSeqs(R) == UNION {[1..n -> R] : n \in 1..MaxRecords}

FilesOf(R) == {Join(rs) : rs \in RecordSeqs(R)}
                \cup {Join(rs) \o <<NL>> : rs \in RecordSeqs(R)}

Files == FilesOf(Records)

\* buffer_size = 8_000_000_000 / max_threads, scaled down
BufferSizes == {2, 4, 5, 6, 9, 13, 16}

(***************************************************************************)
(* new_cycle                                                               *)
(***************************************************************************)
\* file.read(buf) on a regular file: as many bytes as fit, up to end of file
ReadLen(at, size) == Min2(size, Len(file) - at)

\* a spawned worker: its buffer and its state; and, as bookkeeping of the
\* model, the file range [from, to) its buffer was filled from and the rank of
\* its send among the sends on the channel (0: nothing sent)
Thread(buf, from, to) ==
    [buf |-> buf, st |-> "running", from |-> from, to |-> to, arrival |-> 0]

\* new_cycle(file, buffer_a, DebtVec::with(size), tx): the buffer handed to the
\* spawned thread, the buffer returned (the carry) and the file position
new_cycle(a, size) ==
    LET copied_data_len == ReadLen(pos, size)
        b == DebtVec(SubSeq(file, pos + 1, pos + copied_data_len), 0)
        index_linebreak == find_linebreak(slice(b))
    IN  IF index_linebreak >= 0
        THEN LET p1 == pop_front(b, index_linebreak)
                 p2 == pop_front(p1.after, 1)
                 a2 == extend(a, p1.popped)
             IN  [spawn  |-> Thread(a2, pos + index_linebreak - Len(slice(a2)),
                                    pos + index_linebreak),
                  carry  |-> p2.after,
                  newpos |-> pos + copied_data_len]
        ELSE LET a2 == DebtVec(a.vec \o slice(b), a.offset)
             IN  [spawn  |-> Thread(a2, pos + copied_data_len - Len(slice(a2)),
                                    pos + copied_data_len),
                  carry  |-> reset(b),
                  newpos |-> pos + copied_data_len]

(***************************************************************************)
(* thread_manager                                                          *)
(***************************************************************************)
NoAcc == [i \in 1..3 |-> None]
NoFolded == [i \in 1..3 |-> <<>>]

Init ==
    /\ file \in Files
    /\ max_threads \in 1..MaxThreads
    /\ buffer_size \in BufferSizes
    /\ pos = 0
    /\ dynamic_buffer_size = 0
    /\ buffer_a = DebtVec(<<>>, 0)
    /\ n_current_threads = 0
    /\ map_buffer = <<>>
    /\ map = EmptyMap
    /\ chan = <<>>
    /\ threads = <<>>
    /\ pc = "first_read"
    /\ acc = NoAcc
    /\ folded = NoFolded
    /\ AuxInit

\* lines 154-159: the first read fills buffer_a, or the run panics
FirstRead ==
    /\ pc = "first_read"
    /\ LET n == ReadLen(pos, buffer_size)
       IN  IF n < buffer_size
           THEN /\ pc' = "panicked"
                /\ UNCHANGED <<pos, buffer_a, dynamic_buffer_size>>
           ELSE /\ pc' = "fill"
                /\ pos' = pos + n
                /\ buffer_a' = DebtVec(SubSeq(file, 1, n), 0)
                /\ dynamic_buffer_size' = buffer_size \div 2
    /\ UNCHANGED <<file, max_threads, buffer_size, n_current_threads, map_buffer,
                   map, chan, threads, acc, folded, aux>>

\* lines 163-177: one iteration of the initial while loop
FillCycle ==
    /\ pc = "fill"
    /\ n_current_threads < max_threads
    /\ LET size == dynamic_buffer_size + buffer_size \div 16
           c    == new_cycle(buffer_a, size)
       IN  /\ dynamic_buffer_size' = size
           /\ buffer_a' = c.carry
           /\ pos' = c.newpos
           /\ threads' = Append(threads, c.spawn)
           /\ n_current_threads' = n_current_threads + 1
           /\ pc' = IF is_empty(c.carry) \/ n_current_threads + 1 >= max_threads
                    THEN "recv" ELSE "fill"
    /\ UNCHANGED <<file, max_threads, buffer_size, map_buffer, map, chan, acc, folded, aux>>

\* a single pop: only the map on top of map_buffer is merged
MutPopAll(main_map, buf) ==
    IF buf = <<>> THEN main_map ELSE update_maps(main_map, buf[Len(buf)])

\* while let Some(tmp_map) = map_buffer.pop() { update_maps(map, tmp_map) }
RECURSIVE PopAll(_, _)
PopAll(main_map, buf) ==
    IF buf = <<>> THEN main_map
    ELSE PopAll(update_maps(main_map, buf[Len(buf)]), SubSeq(buf, 1, Len(buf) - 1))

\* a receive that leaves the worker count as it was
MutReceived(n) == n

\* n_current_threads -= 1 for the received map (line 183)
Received(n) == n - 1

\* merge only once no worker is left
MutMergeNow(n, max) == n = 0

\* the condition under which map_buffer is merged (line 199)
MergeNow(n, max) == n < max

\* lines 182-207: one iteration of the receive loop, rx.recv() returning Ok
Recv ==
    /\ pc = "recv"
    /\ chan # <<>>
    /\ LET tmp_map == Head(chan)
           cycle   == ~is_empty(buffer_a)
           c       == new_cycle(buffer_a, buffer_size)
           n       == IF cycle THEN Received(n_current_threads) + 1
                                ELSE Received(n_current_threads)
           mb      == Append(map_buffer, tmp_map)
       IN  /\ chan' = Tail(chan)
           /\ IF cycle
              THEN /\ buffer_a' = c.carry
                   /\ pos' = c.newpos
                   /\ threads' = Append(threads, c.spawn)
              ELSE UNCHANGED <<buffer_a, pos, threads>>
           /\ n_current_threads' = n
           /\ IF MergeNow(n, max_threads)
              THEN /\ map' = PopAll(map, mb)
                   /\ map_buffer' = <<>>
                   /\ pc' = IF n = 0 THEN "done" ELSE "recv"
              ELSE /\ map_buffer' = mb
                   /\ UNCHANGED <<map, pc>>
    /\ UNCHANGED <<file, max_threads, buffer_size, dynamic_buffer_size, acc, folded, aux>>

\* lines 254-263: the worker closure, from its first line to tx.send or a panic
WorkerRun(i) ==
    /\ threads[i].st = "running"
    /\ LET m == FoldLines(Lines(slice(threads[i].buf)), EmptyMap)
       IN  IF m = Panic
           THEN /\ threads' = [threads EXCEPT ![i].st = "panicked"]
                /\ UNCHANGED chan
           ELSE /\ threads' = [threads EXCEPT
                                ![i].st = "sent",
                                ![i].arrival = 1 + Cardinality(
                                    {j \in 1..Len(threads) : threads[j].st = "sent"})]
                /\ chan' = Append(chan, m)
    /\ UNCHANGED <<file, pos, max_threads, buffer_size, dynamic_buffer_size,
                   buffer_a, n_current_threads, map_buffer, map, pc, acc, folded, aux>>

Next ==
    \/ FirstRead
    \/ FillCycle
    \/ Recv
    \/ \E i \in 1..Len(threads) : WorkerRun(i)

Spec == Init /\ [][Next]_vars

(***************************************************************************)
(* Merging partial maps in the order the workers finish                    *)
(*                                                                         *)
(* A well-formed file is cut at record boundaries into chunks, one worker  *)
(* per chunk (the worker closure of new_cycle); every map sent is folded   *)
(* into the global map with update_maps as it is received.                 *)
(***************************************************************************)
ChunkNo(cuts, i) == 1 + Cardinality({c \in cuts : c < i})

\* the j-th chunk of the records rs cut after the records in cuts, and the
\* file range it occupies
ChunkThread(rs, cuts, j) ==
    LET I  == {i \in 1..Len(rs) : ChunkNo(cuts, i) = j}
        lo == CHOOSE i \in I : \A k \in I : i <= k
        hi == CHOOSE i \in I : \A k \in I : i >= k
        from == IF lo = 1 THEN 0 ELSE Len(Join(SubSeq(rs, 1, lo - 1))) + 1
        chunk == Join(SubSeq(rs, lo, hi))
    IN  Thread(DebtVec(chunk, 0), from, from + Len(chunk))

InitMerge ==
    /\ \E rs \in RecordSeqs(WellFormedRecords) :
       \E cuts \in SUBSET (1..(Len(rs) - 1)) :
          /\ file = Join(rs)
          /\ threads = [j \in 1..(Cardinality(cuts) + 1) |-> ChunkThread(rs, cuts, j)]
    /\ max_threads = 1
    /\ buffer_size = 0
    /\ pos = Len(file)
    /\ dynamic_buffer_size = 0
    /\ buffer_a = DebtVec(<<>>, 0)
    /\ n_current_threads = Len(threads)
    /\ map_buffer = <<>>
    /\ map = EmptyMap
    /\ chan = <<>>
    /\ pc = "merge"
    /\ acc = NoAcc
    /\ folded = NoFolded
    /\ AuxInit

\* update_maps(map, tmp_map) on the map received next
MergeIn ==
    /\ pc = "merge"
    /\ chan # <<>>
    /\ map' = update_maps(map, Head(chan))
    /\ chan' = Tail(chan)
    /\ n_current_threads' = n_current_threads - 1
    /\ UNCHANGED <<file, pos, max_threads, buffer_size, dynamic_buffer_size,
                   buffer_a, map_buffer, threads, pc, acc, folded, aux>>

NextMerge ==
    \/ MergeIn
    \/ \E i \in 1..Len(threads) : WorkerRun(i)

SpecMerge == InitMerge /\ [][NextMerge]_vars

(***************************************************************************)
(* main02.rs: Station::new, Station::update, process_line                  *)
(***************************************************************************)
\* f64::MAX, in tenths: larger than every value of the model
F64_MAX == 1000000
\* f64::MIN
F64_MIN == -F64_MAX

\* main02 Station::new
Station02New == [min |-> F64_MAX, max |-> F64_MIN, sum |-> 0, count |-> 0]

\* main02 Station::update
Station02Update(s, value) ==
    [min   |-> IF value < s.min THEN value ELSE s.min,
     max   |-> IF value > s.max THEN value ELSE s.max,
     sum   |-> s.sum + Scaled(value),
     count |-> s.count + 1]

\* main02 process_line: the map afterwards, or Panic when an expect() fails
process_line02(line, m) ==
    LET line_iter == Split(line)
        name      == line_iter[1]
    IN  IF Len(line_iter) < 2 THEN Panic
        ELSE LET parsed == ParseF64(line_iter[2])
                 m1 == IF name \notin DOMAIN m THEN m @@ (name :> Station02New)
                       ELSE m
             IN  IF ~parsed.ok THEN Panic
                 ELSE [m1 EXCEPT ![name] = Station02Update(@, parsed.value)]

(***************************************************************************)
(* main02.rs: process, one action per iteration of its loop.  The bytes of *)
(* the model are ASCII, so from_utf8 and from_utf8_lossy return the bytes  *)
(* as they are and valid_len stays None.                                   *)
(***************************************************************************)
\* the byte 0 of vec![0; n]
Zero == "nul"

\* buffer.len(): 20_000_000_000 in the source, scaled down
BufferLens02 == {4, 7, 8, 9, 13}

\* the for loops over lines: process_line on every line in turn
RECURSIVE FoldLines02(_, _)
FoldLines02(lines, m) ==
    IF lines = <<>> \/ m = Panic THEN m
    ELSE FoldLines02(Tail(lines), process_line02(Head(lines), m))

\* file.read(&mut buffer[buffer_offset..]): the number of bytes copied
copied_data_length == Min2(Len(buffer02) - buffer_offset, Len(file) - pos)

data_length == copied_data_length + buffer_offset

\* the buffer after the read
BufferRead ==
    [i \in 1..Len(buffer02) |->
        IF i > buffer_offset /\ i <= data_length
        THEN file[pos + i - buffer_offset]
        ELSE buffer02[i]]

Process02Rest ==
    <<file, max_threads, buffer_size, dynamic_buffer_size, buffer_a,
      n_current_threads, map_buffer, chan, threads, acc, folded, result, arg, ret>>

InitProcess ==
    /\ file \in Files
    /\ \E len \in BufferLens02 : buffer02 = [i \in 1..len |-> Zero]
    /\ buffer_offset = 0
    /\ pos = 0
    /\ map = EmptyMap
    /\ pc = "loop"
    /\ max_threads = 1
    /\ buffer_size = 0
    /\ dynamic_buffer_size = 0
    /\ buffer_a = DebtVec(<<>>, 0)
    /\ n_current_threads = 0
    /\ map_buffer = <<>>
    /\ chan = <<>>
    /\ threads = <<>>
    /\ acc = NoAcc
    /\ folded = NoFolded
    /\ result = <<>>
    /\ arg = <<>>
    /\ ret = <<>>

\* lines 74-85: the read leaves the buffer not full, the last cycle
ProcessLastCycle ==
    /\ pc = "loop"
    /\ data_length < Len(buffer02)
    /\ LET string == SubSeq(BufferRead, 1, data_length)
           m      == FoldLines02(Lines(string), map)
       IN  IF m = Panic
           THEN pc' = "panicked" /\ UNCHANGED map
           ELSE pc' = "returned" /\ map' = m
    /\ buffer02' = BufferRead
    /\ pos' = pos + copied_data_length
    /\ UNCHANGED buffer_offset
    /\ UNCHANGED Process02Rest

\* lines 74-120: the read fills the buffer; every line but the last is
\* processed and the last one is copied to the front of the buffer
ProcessFullCycle ==
    /\ pc = "loop"
    /\ data_length >= Len(buffer02)
    /\ LET string    == BufferRead
           string_ends_with_new_line == string[Len(string)] = NL
           lines     == Lines(string)
           last      == lines[Len(lines)]
           last_line == IF string_ends_with_new_line THEN Append(last, NL) ELSE last
           m         == FoldLines02(SubSeq(lines, 1, Len(lines) - 1), map)
       IN  IF m = Panic
           THEN /\ pc' = "panicked"
                /\ buffer02' = string
                /\ UNCHANGED <<map, buffer_offset>>
           ELSE /\ pc' = "loop"
                /\ map' = m
                /\ buffer02' = [i \in 1..Len(string) |->
                                   IF i <= Len(last_line) THEN last_line[i] ELSE string[i]]
                /\ buffer_offset' = Len(last_line)
    /\ pos' = pos + copied_data_length
    /\ UNCHANGED Process02Rest

NextProcess ==
    \/ ProcessLastCycle
    \/ ProcessFullCycle

SpecProcess == InitProcess /\ [][NextProcess]_vars

(***************************************************************************)
(* The Station algebra: accumulators built with from, update and join      *)
(***************************************************************************)
\* the values folded, in tenths: 0.5, -5.1, 5.1 (tests.rs) and 1.0
Values == {5, -51, 51, 10}

RECURSIVE SeqSum(_)
SeqSum(s) == IF s = <<>> THEN 0 ELSE Head(s) + SeqSum(Tail(s))

TotalFolded == Len(folded[1]) + Len(folded[2]) + Len(folded[3])

InitStation ==
    /\ acc = NoAcc
    /\ folded = NoFolded
    /\ AuxInit
    /\ file = <<>>
    /\ max_threads = 1
    /\ buffer_size = 0
    /\ pos = 0
    /\ dynamic_buffer_size = 0
    /\ buffer_a = DebtVec(<<>>, 0)
    /\ n_current_threads = 0
    /\ map_buffer = <<>>
    /\ map = EmptyMap
    /\ chan = <<>>
    /\ threads = <<>>
    /\ pc = "new"

StationRest == <<file, pos, max_threads, buffer_size, dynamic_buffer_size, buffer_a,
                 n_current_threads, map_buffer, map, chan, threads, aux>>

\* acc[i] = Station::from(value)
AccFrom(i, value) ==
    /\ acc[i] = None
    /\ TotalFolded < MaxFold
    /\ acc' = [acc EXCEPT ![i] = StationFrom(value)]
    /\ folded' = [folded EXCEPT ![i] = <<value>>]
    /\ pc' = "from"
    /\ UNCHANGED StationRest

\* acc[i].update(value)
AccUpdate(i, value) ==
    /\ acc[i] # None
    /\ TotalFolded < MaxFold
    /\ acc' = [acc EXCEPT ![i] = StationUpdate(@, value)]
    /\ folded' = [folded EXCEPT ![i] = Append(@, value)]
    /\ pc' = "update"
    /\ UNCHANGED StationRest

\* acc[i].join(&acc[j])
AccJoin(i, j) ==
    /\ i # j
    /\ acc[i] # None
    /\ acc[j] # None
    /\ TotalFolded + Len(folded[j]) <= MaxFold
    /\ acc' = [acc EXCEPT ![i] = StationJoin(@, acc[j])]
    /\ folded' = [folded EXCEPT ![i] = @ \o folded[j]]
    /\ pc' = "join"
    /\ UNCHANGED StationRest

\* main02 process_line on the entry acc[i] of the map (main02.rs lines 131-135):
\* Station::new() is inserted when the name is absent, then update(value)
AccProcess02(i, value) ==
    /\ TotalFolded < MaxFold
    /\ acc' = [acc EXCEPT ![i] =
                 Station02Update(IF @ = None THEN Station02New ELSE @, value)]
    /\ folded' = [folded EXCEPT ![i] = Append(@, value)]
    /\ pc' = "process02"
    /\ UNCHANGED StationRest

NextStation ==
    \/ \E i \in 1..3 : \E value \in Values : AccFrom(i, value)
    \/ \E i \in 1..3 : \E value \in Values : AccUpdate(i, value)
    \/ \E i \in 1..3 : \E value \in Values : AccProcess02(i, value)
    \/ \E i \in 1..3 : \E j \in 1..3 : AccJoin(i, j)

SpecStation == InitStation /\ [][NextStation]_vars

(***************************************************************************)
(* main: rendering the global map (main.rs lines 119-131)                  *)
(***************************************************************************)
\* the value of a byte (ASCII)
ByteCode(c) ==
    CASE c = NL -> 10 [] c = " " -> 32 [] c = "," -> 44 [] c = "-" -> 45
      [] c = "." -> 46 [] c = "/" -> 47 [] c \in Digits -> 48 + DigitVal(c)
      [] c = ";" -> 59 [] c = "=" -> 61 [] c = "a" -> 97 [] c = "b" -> 98
      [] c = "x" -> 120 [] c = "{" -> 123 [] c = "}" -> 125

\* Ord for String: byte-wise lexicographic, a proper prefix first
RECURSIVE LexLess(_, _)
LexLess(s, t) ==
    IF t = <<>> THEN FALSE
    ELSE IF s = <<>> THEN TRUE
    ELSE IF Head(s) # Head(t) THEN ByteCode(Head(s)) < ByteCode(Head(t))
    ELSE LexLess(Tail(s), Tail(t))

\* result.sort(): the entries in ascending String order
RECURSIVE InsertSorted(_, _)
InsertSorted(sorted, x) ==
    IF sorted = <<>> THEN <<x>>
    ELSE IF LexLess(x, Head(sorted)) THEN <<x>> \o sorted
    ELSE <<Head(sorted)>> \o InsertSorted(Tail(sorted), x)

RECURSIVE SortStrings(_)
SortStrings(v) ==
    IF v = <<>> THEN <<>>
    ELSE InsertSorted(SortStrings(SubSeq(v, 1, Len(v) - 1)), v[Len(v)])

\* the names of stations the summary is rendered for
ReportNames == {<<"a">>, <<"a", "1">>, <<"a", "b">>, <<"b">>}

InitReport ==
    /\ \E names \in SUBSET ReportNames : \E value \in {10, -5} :
          map = [n \in names |-> StationFrom(value)]
    /\ result = <<>>
    /\ arg = <<>>
    /\ ret = <<>>
    /\ buffer02 = <<>>
    /\ buffer_offset = 0
    /\ pc = "collect"
    /\ file = <<>>
    /\ max_threads = 1
    /\ buffer_size = 0
    /\ pos = 0
    /\ dynamic_buffer_size = 0
    /\ buffer_a = DebtVec(<<>>, 0)
    /\ n_current_threads = 0
    /\ map_buffer = <<>>
    /\ chan = <<>>
    /\ threads = <<>>
    /\ acc = NoAcc
    /\ folded = NoFolded

ReportRest == <<file, pos, max_threads, buffer_size, dynamic_buffer_size, buffer_a,
                n_current_threads, map_buffer, chan, threads, acc, folded,
                arg, buffer02, buffer_offset>>

\* lines 120-123: one iteration of for (name, value) in map.drain(); a HashMap
\* yields its entries in any order
MainPush(name) ==
    /\ pc = "collect"
    /\ name \in DOMAIN map
    /\ result' = Append(result, name \o StationDrain(map[name]))
    /\ map' = [n \in DOMAIN map \ {name} |-> map[n]]
    /\ UNCHANGED <<pc, ret>>
    /\ UNCHANGED ReportRest

\* line 124: result.sort()
MainSort ==
    /\ pc = "collect"
    /\ DOMAIN map = {}
    /\ result' = SortStrings(result)
    /\ pc' = "sorted"
    /\ UNCHANGED <<map, ret>>
    /\ UNCHANGED ReportRest

\* the elements after the first, each printed as ", {}"
RECURSIVE PrintRest(_)
PrintRest(v) ==
    IF v = <<>> THEN <<>> ELSE <<",", " ">> \o Head(v) \o PrintRest(Tail(v))

\* lines 126-131: the printed line; iter.next().unwrap() panics on no entry
MainPrint ==
    /\ pc = "sorted"
    /\ IF result = <<>>
       THEN /\ pc' = "panicked"
            /\ UNCHANGED ret
       ELSE /\ pc' = "printed"
            /\ ret' = <<"{", " ">> \o Head(result) \o PrintRest(Tail(result))
                         \o <<" ", "}", NL>>
    /\ UNCHANGED <<map, result>>
    /\ UNCHANGED ReportRest

NextReport ==
    \/ \E name \in ReportNames : MainPush(name)
    \/ MainSort
    \/ MainPrint

SpecReport == InitReport /\ [][NextReport]_vars

(***************************************************************************)
(* find_linebreak and process_line called on their own                     *)
(***************************************************************************)
CallBytes == {"a", ";", "1", ".", NL}

ByteSeqs == UNION {[1..n -> CallBytes] : n \in 0..MaxLen}

\* the maps process_line is called with: empty, and one that holds station a
CallMaps == {EmptyMap, <<"a">> :> StationFrom(5)}

InitCall ==
    /\ arg \in ByteSeqs
    /\ ret = <<>>
    /\ pc = "call"
    /\ result = <<>>
    /\ buffer02 = <<>>
    /\ buffer_offset = 0
    /\ map = EmptyMap
    /\ file = <<>>
    /\ max_threads = 1
    /\ buffer_size = 0
    /\ pos = 0
    /\ dynamic_buffer_size = 0
    /\ buffer_a = DebtVec(<<>>, 0)
    /\ n_current_threads = 0
    /\ map_buffer = <<>>
    /\ chan = <<>>
    /\ threads = <<>>
    /\ acc = NoAcc
    /\ folded = NoFolded

CallRest == <<file, pos, max_threads, buffer_size, dynamic_buffer_size, buffer_a,
              n_current_threads, map_buffer, chan, threads, acc, folded,
              arg, result, buffer02, buffer_offset>>

\* find_linebreak(arg)
CallFindLinebreak ==
    /\ pc = "call"
    /\ ret' = find_linebreak(arg)
    /\ pc' = "find_linebreak"
    /\ UNCHANGED map
    /\ UNCHANGED CallRest

\* a line as str::lines yields it holds no NL
IsLine(s) == \A i \in 1..Len(s) : s[i] # NL

\* process_line(arg, &mut map) of main.rs
CallProcessLine ==
    /\ pc = "call"
    /\ IsLine(arg)
    /\ \E m \in CallMaps :
          /\ map' = m
          /\ ret' = process_line(arg, m)
    /\ pc' = "process_line"
    /\ UNCHANGED CallRest

\* process_line(arg, &mut map) of main02.rs
CallProcessLine02 ==
    /\ pc = "call"
    /\ IsLine(arg)
    /\ \E m \in CallMaps :
          /\ map' = m
          /\ ret' = process_line02(arg, m)
    /\ pc' = "process_line02"
    /\ UNCHANGED CallRest

NextCall ==
    \/ CallFindLinebreak
    \/ CallProcessLine
    \/ CallProcessLine02

SpecCall == InitCall /\ [][NextCall]_vars

(***************************************************************************)
(* What the claims speak of                                                *)
(***************************************************************************)
\* a record `name;value`: a non-empty name, one separator, a value with an
\* optional '-', digits, '.', exactly one fractional digit
WellFormedLine(line) ==
    LET parts == Split(line)
    IN  /\ Len(parts) = 2
        /\ parts[1] # <<>>
        /\ ParseF64(parts[2]).ok
        /\ Len(parts[2]) >= 3
        /\ parts[2][Len(parts[2]) - 1] = "."

WellFormed(f) == \A i \in 1..Len(Lines(f)) : WellFormedLine(Lines(f)[i])

RECURSIVE SumOver(_, _)
SumOver(S, val) ==
    IF S = {} THEN 0
    ELSE LET i == CHOOSE k \in S : TRUE IN val[i] + SumOver(S \ {i}, val)

\* the statistics of a well-formed file, from their definition: per name the
\* smallest and largest value, the sum of the values in tenths and the number
\* of records
Expected(f) ==
    LET lines == Lines(f)
        name  == [i \in 1..Len(lines) |-> Split(lines[i])[1]]
        val   == [i \in 1..Len(lines) |-> ParseF64(Split(lines[i])[2]).value]
        of(n) == {i \in 1..Len(lines) : name[i] = n}
    IN  [n \in {name[i] : i \in 1..Len(lines)} |->
            [min   |-> CHOOSE v \in {val[i] : i \in of(n)} :
                           \A i \in of(n) : v <= val[i],
             max   |-> CHOOSE v \in {val[i] : i \in of(n)} :
                           \A i \in of(n) : v >= val[i],
             sum   |-> SumOver(of(n), val),
             count |-> Cardinality(of(n))]]

\* no further chunk will be produced: the loops call new_cycle only while the
\* carry is not empty
ProductionStopped == pc \in {"recv", "done"} /\ is_empty(buffer_a)

\* the chunks handed to the workers, each followed by one dropped NL, make up
\* the file from its first byte to its last
ChunksCoverFile ==
    /\ threads # <<>>
    /\ threads[1].from = 0
    /\ \A k \in 1..Len(threads) :
          /\ slice(threads[k].buf) = SubSeq(file, threads[k].from + 1, threads[k].to)
          /\ k < Len(threads) =>
                /\ threads[k + 1].from = threads[k].to + 1
                /\ file[threads[k].to + 1] = NL
    /\ LET last == threads[Len(threads)].to
       IN  \/ last = Len(file)
           \/ last = Len(file) - 1 /\ file[Len(file)] = NL

AnyPanicked == \E i \in 1..Len(threads) : threads[i].st = "panicked"

\* C1: when thread_manager returns on a well-formed file, the global map holds
\* exactly the file's names, each with the min, max, scaled sum and count of
\* its records over the whole file.
C1_GlobalMapExact ==
    (pc = "done" /\ WellFormed(file)) => map = Expected(file)

\* C2: no record is lost by chunking: chunk production stops only at the end
\* of the file, so that once it has stopped the chunks handed to the workers,
\* plus one dropped terminator per boundary, account for every byte of the
\* file.
C2_NoRecordLost ==
    ProductionStopped => ChunksCoverFile

\* C3: every chunk handed to a worker starts at byte 0 or right after an NL and
\* ends right before an NL or at the end of the file; a block without NL read
\* before the end of the file does not end a chunk.
C3_ChunksLineAligned ==
    \A k \in 1..Len(threads) :
        /\ threads[k].from = 0 \/ file[threads[k].from] = NL
        /\ threads[k].to = Len(file) \/ file[threads[k].to + 1] = NL

\* C5: a file of exactly one record without terminator is processed to
\* completion for every block size: the run does not fail, and when it is
\* done the record is in the global map.
C5_SingleRecordCompletes ==
    file \in WellFormedRecords =>
        /\ pc # "panicked"
        /\ ~AnyPanicked
        /\ pc = "done" => map = Expected(file)

\* C6: if some record of the file is malformed, thread_manager never returns
\* normally.
C6_NoSummaryOnMalformed ==
    ~WellFormed(file) => pc # "done"

\* the main thread waits in rx.recv() and nothing will ever be sent
MainBlockedForever ==
    /\ pc = "recv"
    /\ chan = <<>>
    /\ \A j \in 1..Len(threads) : threads[j].st # "running"

\* C7: when a worker has failed, the main thread does not stay blocked forever
\* on the channel.
C7_FailurePropagates ==
    AnyPanicked => ~MainBlockedForever

\* the smallest and the largest of a non-empty sequence of values
MinOf(s) == CHOOSE v \in {s[i] : i \in 1..Len(s)} : \A i \in 1..Len(s) : v <= s[i]
MaxOf(s) == CHOOSE v \in {s[i] : i \in 1..Len(s)} : \A i \in 1..Len(s) : v >= s[i]

\* C4: for any non-empty sequence of one-decimal values folded into a Station,
\* drain renders the smallest value, the arithmetic mean (sum / 10) / count
\* with one fractional digit, and the largest value; 0.5, -5.1, 5.1 renders
\* as =-5.1/0.2/5.1.
C4_DrainRendersMean ==
    \A i \in 1..3 :
        acc[i] # None =>
            /\ StationDrain(acc[i]) =
                  <<"=">> \o FormatF1(MinOf(folded[i]), 10) \o <<"/">>
                  \o FormatF1(SeqSum(folded[i]), 10 * Len(folded[i])) \o <<"/">>
                  \o FormatF1(MaxOf(folded[i]), 10)
            /\ folded[i] = <<5, -51, 51>> =>
                  StationDrain(acc[i]) =
                     <<"=", "-", "5", ".", "1", "/", "0", ".", "2", "/", "5", ".", "1">>

AllMerged ==
    /\ pc = "merge"
    /\ chan = <<>>
    /\ \A i \in 1..Len(threads) : threads[i].st = "sent"

\* the map worker i builds from its chunk
Partial(i) == FoldLines(Lines(slice(threads[i].buf)), EmptyMap)

\* the partial maps of workers 1..n merged in spawn order
RECURSIVE MergedInSpawnOrder(_)
MergedInSpawnOrder(n) ==
    IF n = 0 THEN EmptyMap ELSE update_maps(MergedInSpawnOrder(n - 1), Partial(n))

\* C8: whatever the order in which the partial maps arrive, the global map
\* after merging them all is the one obtained by merging them in spawn order.
C8_MergeOrderIndependent ==
    AllMerged => map = MergedInSpawnOrder(Len(threads))

\* C8 witness: three partial maps have been merged, the one spawned first
\* arrived last, and a name occurs in two of them with different statistics.
C8_Witness ==
    /\ AllMerged
    /\ Len(threads) = 3
    /\ threads[1].arrival = 3
    /\ threads[3].arrival = 1
    /\ \E n \in DOMAIN Partial(1) \cap DOMAIN Partial(3) :
          /\ Partial(1)[n].min # Partial(3)[n].min
          /\ Partial(1)[n].max # Partial(3)[n].max

Defined == {i \in 1..3 : acc[i] # None}

\* C9: on all accumulators reachable by from, update and join, join is
\* commutative and associative in every field.
C9_JoinCommutativeAssociative ==
    \A i, j, k \in Defined :
        /\ StationJoin(acc[i], acc[j]) = StationJoin(acc[j], acc[i])
        /\ StationJoin(StationJoin(acc[i], acc[j]), acc[k])
              = StationJoin(acc[i], StationJoin(acc[j], acc[k]))

\* C9 witness: three accumulators exist, the last operation was a join, and
\* two of them differ in min, max, sum and count.
C9_Witness ==
    /\ pc = "join"
    /\ Defined = 1..3
    /\ acc[1].count >= 2
    /\ acc[1].min < acc[2].min
    /\ acc[1].max < acc[2].max
    /\ acc[1].sum # acc[2].sum
    /\ acc[3] # acc[2]

\* C10: for every split of a well-formed file into chunks at record
\* boundaries, folding each chunk into its own map and merging the maps gives
\* the map obtained by folding the whole file into a single map.
C10_SplitEquivalence ==
    AllMerged => map = FoldLines(Lines(file), EmptyMap)

\* C10 witness: a file of three records was cut into two chunks, both were
\* folded and merged, and a name has records in both chunks.
C10_Witness ==
    /\ AllMerged
    /\ Len(threads) = 2
    /\ Len(Lines(file)) = 3
    /\ \E n \in DOMAIN Partial(1) \cap DOMAIN Partial(2) : map[n].count = 3

\* the name of an entry `name=min/mean/max` of the summary
RECURSIVE NameOf(_)
NameOf(entry) ==
    IF entry = <<>> \/ Head(entry) = "=" THEN <<>>
    ELSE <<Head(entry)>> \o NameOf(Tail(entry))

\* C11: the summary lists its entries sorted by name in ascending
\* byte-lexicographic order, for every set of distinct names.
C11_SortedByName ==
    pc \in {"sorted", "printed"} =>
        \A i \in 1..(Len(result) - 1) :
            LexLess(NameOf(result[i]), NameOf(result[i + 1]))

\* C12: find_linebreak returns Some(i) with i the smallest index holding NL,
\* and None (here -1) exactly when the buffer holds no NL, the empty buffer
\* included.
C12_FirstLinebreak ==
    pc = "find_linebreak" =>
        IF \E i \in 1..Len(arg) : arg[i] = NL
        THEN /\ ret \in 0..(Len(arg) - 1)
             /\ arg[ret + 1] = NL
             /\ \A j \in 1..ret : arg[j] # NL
        ELSE ret = -1

\* C12 witness: find_linebreak has returned on a buffer with two NLs, the
\* first of them not at index 0.
C12_Witness ==
    /\ pc = "find_linebreak"
    /\ Cardinality({i \in 1..Len(arg) : arg[i] = NL}) = 2
    /\ ret > 0

\* the text of a record after its first separator; Panic-free only when the
\* record has a separator
AfterFirstSep(line) ==
    LET i == CHOOSE k \in 1..Len(line) :
                 /\ line[k] = SEP
                 /\ \A j \in 1..(k - 1) : line[j] # SEP
    IN  SubSeq(line, i + 1, Len(line))

HasSep(line) == \E k \in 1..Len(line) : line[k] = SEP

\* C18: process_line splits a record on its first separator only: when the
\* record has no separator, or the text after the first separator does not
\* parse as a number, the call is fatal (main.rs and main02.rs alike).
C18_SplitOnFirstSeparator ==
    pc \in {"process_line", "process_line02"} =>
        ((~HasSep(arg) \/ ~ParseF64(AfterFirstSep(arg)).ok) => ret = Panic)

\* C19: every Station built by from, update and join, and every Station of
\* main02's map once process_line has returned, has count >= 1 and
\* min <= max.
C19_StationInvariant ==
    \A i \in Defined : acc[i].count >= 1 /\ acc[i].min <= acc[i].max

\* C19 witness: main02's process_line has just returned, one accumulator
\* holds several values with min < max, and another one exists.
C19_Witness ==
    /\ pc = "process02"
    /\ acc[1] # None
    /\ acc[1].count >= 2
    /\ acc[1].min < acc[1].max
    /\ acc[2] # None

\* C13 as stated: every map received is folded into the global map before
\* the main thread blocks on the channel again, so map_buffer is empty
\* whenever the main thread waits in recv.
C13_MergedAsTheyArrive ==
    pc = "recv" => map_buffer = <<>>

\* C13 amended: a received map stays in map_buffer only while the main thread
\* waits in recv with the pool full (n_current_threads = max_threads after
\* the respawn); whenever fewer workers run, every received map is folded.
C13_BufferedOnlyWhilePoolFull ==
    map_buffer # <<>> => (pc = "recv" /\ n_current_threads = max_threads)

\* C13 witness: the main thread waits in recv with a received map still
\* unmerged, the pool being full with more than one worker.
C13_Witness ==
    /\ pc = "recv"
    /\ map_buffer # <<>>
    /\ n_current_threads = max_threads
    /\ max_threads = MaxThreads

\* C14: no byte of the input is handed to more than one worker: the buffer
\* of every spawned worker is a non-empty range of the file, and the ranges
\* of successively spawned workers are disjoint and in file order.
C14_ChunksDisjoint ==
    /\ \A k \in 1..Len(threads) :
          /\ 0 <= threads[k].from
          /\ threads[k].from < threads[k].to
          /\ threads[k].to <= Len(file)
          /\ slice(threads[k].buf) = SubSeq(file, threads[k].from + 1, threads[k].to)
    /\ \A j \in 1..Len(threads) : \A k \in 1..Len(threads) :
          j < k => threads[j].to <= threads[k].from

\* C14 witness: thread_manager has returned after spawning three workers,
\* the later ones on chunks that begin with carried bytes.
C14_Witness ==
    /\ pc = "done"
    /\ Len(threads) >= 3

\* C15: n_current_threads never exceeds max_threads, and once the initial
\* fill is over a worker is spawned only in the step that takes a map from
\* the channel, one worker for one map.
C15_PoolBounded ==
    /\ [](n_current_threads <= max_threads)
    /\ [][(pc = "recv" /\ Len(threads') > Len(threads))
            => (/\ chan # <<>>
                /\ chan' = Tail(chan)
                /\ Len(threads') = Len(threads) + 1
                /\ n_current_threads' = n_current_threads)]_vars

\* C15 witness: after the initial fill a worker has been spawned in exchange
\* for a received map and the pool is full again.
C15_Witness ==
    /\ pc = "recv"
    /\ Len(threads) > max_threads
    /\ n_current_threads = max_threads
    /\ max_threads = MaxThreads

\* the workers that have sent their map, the number of maps the main thread
\* has taken from the channel, and the number of those already folded
Sent == {i \in 1..Len(threads) : threads[i].st = "sent"}
NReceived == Cardinality(Sent) - Len(chan)
NFolded == NReceived - Len(map_buffer)

\* the worker whose send was the r-th on the channel
SenderOf(r) == CHOOSE i \in Sent : threads[i].arrival = r

\* the partial maps of the workers of S among 1..n, merged in spawn order
RECURSIVE MergedOf(_, _)
MergedOf(S, n) ==
    IF n = 0 THEN EmptyMap
    ELSE IF n \in S THEN update_maps(MergedOf(S, n - 1), Partial(n))
         ELSE MergedOf(S, n - 1)

\* C16: every finished worker has sent its map exactly once (the sends are
\* numbered 1..|Sent| without gap or repeat); every map sent is in exactly one
\* place, the channel, map_buffer or the global map, the global map being the
\* merge of exactly the maps folded so far; and when thread_manager returns,
\* map_buffer is empty, n_current_threads is 0 and every worker's map is in
\* the global map once.
C16_SentOnceFoldedOnce ==
    /\ \A r \in 1..Cardinality(Sent) : \E i \in Sent : threads[i].arrival = r
    /\ \A i \in Sent : \A j \in Sent : threads[i].arrival = threads[j].arrival => i = j
    /\ NFolded >= 0
    /\ chan = [k \in 1..Len(chan) |-> Partial(SenderOf(NReceived + k))]
    /\ map_buffer = [k \in 1..Len(map_buffer) |-> Partial(SenderOf(NFolded + k))]
    /\ map = MergedOf({i \in Sent : threads[i].arrival <= NFolded}, Len(threads))
    /\ n_current_threads = Len(threads) - NReceived
    /\ pc = "done" =>
          /\ map_buffer = <<>>
          /\ n_current_threads = 0
          /\ chan = <<>>
          /\ Sent = 1..Len(threads)
          /\ map = MergedInSpawnOrder(Len(threads))

\* C16 witness: thread_manager has returned, the worker spawned first having
\* sent its map after the second.
C16_Witness ==
    /\ pc = "done"
    /\ Len(threads) >= 2
    /\ threads[1].arrival > threads[2].arrival

\* C17: on a file of well-formed records whose first read fills the buffer,
\* thread_manager eventually returns under fair scheduling of the workers;
\* hence it never reaches a state in which the main thread waits in recv, the
\* channel is empty and no worker is left to run.
C17_EventuallyReturns ==
    (WellFormed(file) /\ pc \notin {"first_read", "panicked"})
        => ~MainBlockedForever

\* C20: main02's process terminates on every finite input and folds every
\* record exactly once, for every buffer size: no cycle begins with the
\* carried line filling the whole buffer (the read would then copy nothing
\* and the cycle repeat unchanged), and when process returns on a well-formed
\* file the map holds the statistics of the whole file.
C20_ProcessTerminatesExact ==
    /\ pc = "loop" => buffer_offset < Len(buffer02)
    /\ (pc = "returned" /\ WellFormed(file)) => map = Expected(file)

====
